---------------------------- MODULE Spec2Model ----------------------------
(***************************************************************************)
(* ARWN sensor platform (homeassistant/components/arwn/sensor.py).         *)
(*                                                                         *)
(* Strings that the code takes apart or transforms (topics, sensor names,  *)
(* entity ids) are sequences of one-character strings, so that split and   *)
(* slugify are computed.  Strings the code only compares or stores         *)
(* (payload keys and values, units, icons) are TLA+ strings.               *)
(***************************************************************************)
EXTENDS Integers, Sequences, FiniteSets, Bags, TLC

VARIABLES
    store,          \* hass.data["arwn"]: sensor name -> ArwnSensor
    subscriptions,  \* the transport's subscriptions, a bag of [topic, name]
    pending,        \* sensors handed to async_add_entities, not yet added to hass
    announced,      \* bag of the sensors passed to async_add_entities
    received,       \* number of inbound messages so far
    \* The last step, its input and its outputs:
    step,           \* "message" (a delivery), "added" (the host) or "none"
    msg,            \* the message delivered last
    raised,         \* callback -> the exception it ended with, if it raised
    written         \* bag of the sensors whose async_write_ha_state ran

vars == <<store, subscriptions, pending, announced, received, step, msg,
          raised, written>>

\* Number of inbound messages in a run.
MaxMsgs == 2

----------------------------------------------------------------------------
(* Character strings *)

S_arwn == <<"a", "r", "w", "n">>
S_temperature == <<"t", "e", "m", "p", "e", "r", "a", "t", "u", "r", "e">>
S_moisture == <<"m", "o", "i", "s", "t", "u", "r", "e">>
S_rain == <<"r", "a", "i", "n">>
S_barometer == <<"b", "a", "r", "o", "m", "e", "t", "e", "r">>
S_wind == <<"w", "i", "n", "d">>
S_today == <<"t", "o", "d", "a", "y">>
S_other == <<"o", "t", "h", "e", "r">>
S_unknown == <<"u", "n", "k", "n", "o", "w", "n">>
S_foo == <<"f", "o", "o">>
S_Yard == <<"Y", "a", "r", "d">>
S_yard == <<"y", "a", "r", "d">>
S_timestamp == <<"t", "i", "m", "e", "s", "t", "a", "m", "p">>

N_Moisture == <<" ", "M", "o", "i", "s", "t", "u", "r", "e">>
N_RainSinceMidnight ==
    <<"R", "a", "i", "n", " ", "S", "i", "n", "c", "e", " ",
      "M", "i", "d", "n", "i", "g", "h", "t">>
N_TotalRainfall ==
    <<"T", "o", "t", "a", "l", " ", "R", "a", "i", "n", "f", "a", "l", "l">>
N_RainfallRate ==
    <<"R", "a", "i", "n", "f", "a", "l", "l", " ", "R", "a", "t", "e">>
N_Barometer == <<"B", "a", "r", "o", "m", "e", "t", "e", "r">>
N_WindSpeed == <<"W", "i", "n", "d", " ", "S", "p", "e", "e", "d">>
N_WindGust == <<"W", "i", "n", "d", " ", "G", "u", "s", "t">>
N_WindDirection ==
    <<"W", "i", "n", "d", " ", "D", "i", "r", "e", "c", "t", "i", "o", "n">>

UpperCase ==
    <<"A", "B", "C", "D", "E", "F", "G", "H", "I", "J", "K", "L", "M",
      "N", "O", "P", "Q", "R", "S", "T", "U", "V", "W", "X", "Y", "Z">>
LowerCase ==
    <<"a", "b", "c", "d", "e", "f", "g", "h", "i", "j", "k", "l", "m",
      "n", "o", "p", "q", "r", "s", "t", "u", "v", "w", "x", "y", "z">>
Digits == <<"0", "1", "2", "3", "4", "5", "6", "7", "8", "9">>

Range(s) == {s[i] : i \in 1..Len(s)}

\* "/".join(parts)
RECURSIVE Join(_)
Join(parts) ==
    IF Len(parts) = 0 THEN <<>>
    ELSE IF Len(parts) = 1 THEN parts[1]
    ELSE parts[1] \o <<"/">> \o Join(Tail(parts))

\* topic.split("/")
RECURSIVE Split(_)
Split(s) ==
    IF "/" \notin Range(s) THEN <<s>>
    ELSE LET i == CHOOSE k \in 1..Len(s) :
                      s[k] = "/" /\ \A j \in 1..(k - 1) : s[j] # "/"
         IN  <<SubSeq(s, 1, i - 1)>> \o Split(SubSeq(s, i + 1, Len(s)))

UpperChars == Range(UpperCase)
AlnumChars == Range(LowerCase) \cup Range(Digits)

\* str.lower() of one character
Lower(c) ==
    IF c \in UpperChars
    THEN LowerCase[CHOOSE i \in 1..Len(UpperCase) : UpperCase[i] = c]
    ELSE c

IsAlnum(c) == c \in AlnumChars

\* homeassistant.util.slugify: lower-case, every run of non-alphanumeric
\* characters becomes one "_" separator.
RECURSIVE slugify(_)
slugify(text) ==
    IF Len(text) = 0 THEN <<>>
    ELSE LET c == Lower(text[1])
             rest == slugify(Tail(text))
         IN  IF IsAlnum(c) THEN <<c>> \o rest
             ELSE IF Len(text) > 1 /\ ~IsAlnum(Lower(text[2])) THEN rest
             ELSE <<"_">> \o rest

S_sensor_arwn_ ==
    <<"s", "e", "n", "s", "o", "r", ".", "a", "r", "w", "n", "_">>

_slug(name) == S_sensor_arwn_ \o slugify(name)

----------------------------------------------------------------------------
(* Constants of the platform and of homeassistant.const *)

TOPIC == S_arwn \o <<"/", "#">>
TEMP_FAHRENHEIT == "deg F"
TEMP_CELSIUS == "deg C"
DEGREE == "deg"
NoIcon == "None"
\* Python's None as the result of dict.get(key, None); no payload value equals it
NoValue == "None"

----------------------------------------------------------------------------
(* Inbound messages *)

Topics ==
    { Join(<<S_arwn>>),
      Join(<<S_arwn, S_temperature>>),
      Join(<<S_arwn, S_moisture>>),
      Join(<<S_arwn, S_temperature, S_Yard>>),
      Join(<<S_arwn, S_temperature, S_yard>>),
      Join(<<S_arwn, S_temperature, N_Barometer>>),
      Join(<<S_arwn, S_moisture, S_Yard>>),
      Join(<<S_arwn, S_rain>>),
      Join(<<S_arwn, S_rain, S_today>>),
      Join(<<S_arwn, S_rain, S_other>>),
      Join(<<S_arwn, S_barometer>>),
      Join(<<S_arwn, S_wind>>),
      Join(<<S_arwn, S_unknown, S_foo>>) }

\* A payload on the wire is text that is not JSON, or the text of a JSON
\* value: an object (a function from its keys to its values), a string, an
\* array, or a value that is none of these (a number, null, true, false).
\* `items` is what iterating the value yields: the characters of a string,
\* the elements of an array.
NoObj == [k \in {} |-> ""]
Malformed == [kind |-> "malformed", obj |-> NoObj, items |-> <<>>]
JsonObject(o) == [kind |-> "object", obj |-> o, items |-> <<>>]

\* The elements: a string (parts: its characters), an array of strings
\* (parts: its elements), a number.
Str(chars) == [type |-> "str", parts |-> chars]
List(strings) == [type |-> "list", parts |-> strings]
Number == [type |-> "number", parts |-> <<>>]

JsonString(chars) ==
    [kind |-> "string", obj |-> NoObj,
     items |-> [i \in 1..Len(chars) |-> Str(<<chars[i]>>)]]
JsonArray(elements) == [kind |-> "array", obj |-> NoObj, items |-> elements]
JsonNumber == [kind |-> "number", obj |-> NoObj, items |-> <<>>]

Reading1 ==
    ("timestamp" :> "t1" @@ "units" :> "F" @@ "temp" :> "72.5"
     @@ "moisture" :> "40" @@ "since_midnight" :> "0.1" @@ "total" :> "1.5"
     @@ "rate" :> "0.2" @@ "pressure" :> "1013" @@ "speed" :> "5"
     @@ "gust" :> "9" @@ "direction" :> "180")
Reading2 ==
    ("units" :> "mph" @@ "temp" :> "20" @@ "moisture" :> "41"
     @@ "since_midnight" :> "0.3" @@ "total" :> "1.7" @@ "rate" :> "0.0"
     @@ "pressure" :> "1009" @@ "speed" :> "7" @@ "gust" :> "12"
     @@ "direction" :> "90")
Reading3 == ("timestamp" :> "t3" @@ "battery" :> "low")

\* The text "abc", the text [["timestamp", "t1"], ["b"]], the text [] and
\* the text 5.
Text1 == JsonString(<<"a", "b", "c">>)
Pairs1 == JsonArray(<<List(<<"timestamp", "t1">>), List(<<"b">>)>>)
Empty1 == JsonArray(<<>>)
Number1 == JsonNumber

Payloads ==
    { Malformed, JsonObject(Reading1), JsonObject(Reading2),
      JsonObject(Reading3), Text1, Pairs1, Empty1, Number1 }

Messages == [topic : Topics, payload : Payloads]

\* json.loads(msg.payload)
json_loads(payload) ==
    IF payload.kind = "malformed"
    THEN [raised |-> "JSONDecodeError", value |-> payload]
    ELSE [raised |-> "none", value |-> payload]

\* del event["timestamp"] of a dict, when the key is present
DelTimestamp(event) ==
    IF "timestamp" \in DOMAIN event
    THEN [k \in DOMAIN event \ {"timestamp"} |-> event[k]]
    ELSE event

\* "timestamp" in event: a key of a dict, a substring of a string, an element
\* of a list; a value that is not iterable raises.
Contains(event) ==
    IF event.kind = "object"
    THEN [raised |-> "none", value |-> "timestamp" \in DOMAIN event.obj]
    ELSE IF event.kind = "string"
    THEN LET text == [i \in 1..Len(event.items) |-> event.items[i].parts[1]]
         IN  [raised |-> "none",
              value |-> \E i \in 1..Len(text) :
                           /\ i + Len(S_timestamp) - 1 <= Len(text)
                           /\ SubSeq(text, i, i + Len(S_timestamp) - 1)
                                = S_timestamp]
    ELSE IF event.kind = "array"
    THEN [raised |-> "none",
          value |-> \E i \in 1..Len(event.items) :
                       event.items[i] = Str(S_timestamp)]
    ELSE [raised |-> "TypeError", value |-> FALSE]

\* if "timestamp" in event: del event["timestamp"].  A string and a list
\* have no item of that name to delete: del raises.
StripTimestamp(event) ==
    LET found == Contains(event)
    IN  IF found.raised # "none"
        THEN [raised |-> found.raised, value |-> event]
        ELSE IF ~found.value THEN [raised |-> "none", value |-> event]
        ELSE IF event.kind = "object"
        THEN [raised |-> "none",
              value |-> [event EXCEPT !.obj = DelTimestamp(@)]]
        ELSE [raised |-> "TypeError", value |-> event]

\* dict.update with a sequence: every element must iterate to a key and a
\* value; the keys before the element that does not are in the dict when
\* the call raises.
RECURSIVE UpdateItems(_, _)
UpdateItems(d, items) ==
    IF Len(items) = 0 THEN [raised |-> "none", value |-> d]
    ELSE LET item == Head(items)
         IN  IF item.type = "number"
             THEN [raised |-> "TypeError", value |-> d]
             ELSE IF Len(item.parts) # 2
             THEN [raised |-> "ValueError", value |-> d]
             ELSE UpdateItems((item.parts[1] :> item.parts[2]) @@ d,
                              Tail(items))

\* dict.update(event)
dict_update(d, event) ==
    IF event.kind = "object"
    THEN [raised |-> "none", value |-> event.obj @@ d]
    ELSE IF event.kind \in {"string", "array"}
    THEN UpdateItems(d, event.items)
    ELSE [raised |-> "TypeError", value |-> d]

----------------------------------------------------------------------------
(* ArwnSensor *)

ArwnSensor(name, state_key, units, topic, icon) ==
    [ hass |-> FALSE,
      entity_id |-> _slug(name),
      name |-> name,
      state_key |-> state_key,
      event |-> NoObj,
      unit |-> units,
      icon |-> icon,
      topic |-> topic ]

\* ArwnSensor.state
State(sensor) ==
    IF sensor.state_key \in DOMAIN sensor.event
    THEN sensor.event[sensor.state_key]
    ELSE NoValue

\* Mutant: the unit follows the units of the payload.
set_event_units(sensor, event) ==
    LET updated == dict_update(NoObj, event)
    IN  [ sensor |-> [sensor EXCEPT
                        !.event = updated.value,
                        !.unit = IF "units" \in DOMAIN updated.value
                                 THEN updated.value["units"] ELSE @],
          raised |-> updated.raised ]

\* Mutant: a payload equal to the attributes already held clears them.
set_event_toggle(sensor, event) ==
    LET updated == dict_update(NoObj, event)
    IN  [ sensor |-> [sensor EXCEPT
                        !.event = IF @ = updated.value
                                  THEN NoObj ELSE updated.value],
          raised |-> updated.raised ]

\* Mutant: the payload is merged into the attributes already held.
set_event_merge(sensor, event) ==
    LET updated == dict_update(sensor.event, event)
    IN  [ sensor |-> [sensor EXCEPT !.event = updated.value],
          raised |-> updated.raised ]

\* ArwnSensor.set_event: self.event = {}, then self.event.update(event), then
\* self.async_write_ha_state().  `sensor` is the sensor when the method ends
\* and `raised` the exception update ended with: when it raised, the
\* attributes are the keys update had stored and the state was not written.
\* The callers record the write in `written`.
set_event(sensor, event) ==
    LET updated == dict_update(NoObj, event)
    IN  [ sensor |-> [sensor EXCEPT !.event = updated.value],
          raised |-> updated.raised ]

----------------------------------------------------------------------------
(* discover_sensors *)

None == [raised |-> "none", kind |-> "None", sensors |-> <<>>]
One(sensor) == [raised |-> "none", kind |-> "ArwnSensor", sensors |-> <<sensor>>]
Tuple(sensors) == [raised |-> "none", kind |-> "tuple", sensors |-> sensors]
Raise(exc) == [raised |-> exc, kind |-> "None", sensors |-> <<>>]

\* Mutant: every temperature sensor is labelled Celsius.
Temperature_celsius(parts, unit, topic) ==
    IF Len(parts) < 3 THEN Raise("IndexError")
    ELSE One(ArwnSensor(parts[3], "temp", TEMP_CELSIUS, topic, NoIcon))

\* Mutant: a rain topic without a third segment is taken for today's.
Rain_today(parts, unit, topic) ==
    IF Len(parts) < 3 \/ parts[3] = S_today
    THEN One(ArwnSensor(N_RainSinceMidnight, "since_midnight", "in", topic,
                        "mdi:water"))
    ELSE Tuple(<<ArwnSensor(N_TotalRainfall, "total", unit, topic, "mdi:water"),
                 ArwnSensor(N_RainfallRate, "rate", unit, topic, "mdi:water")>>)

\* The branches of discover_sensors, by domain.
Temperature(parts, unit, topic) ==
    IF Len(parts) < 3 THEN Raise("IndexError")
    ELSE One(ArwnSensor(parts[3], "temp",
                        IF unit = "F" THEN TEMP_FAHRENHEIT ELSE TEMP_CELSIUS,
                        topic, NoIcon))

Moisture(parts, unit, topic) ==
    IF Len(parts) < 3 THEN Raise("IndexError")
    ELSE One(ArwnSensor(parts[3] \o N_Moisture, "moisture", unit, topic,
                        "mdi:water-percent"))

Rain(parts, unit, topic) ==
    IF Len(parts) >= 3 /\ parts[3] = S_today
    THEN One(ArwnSensor(N_RainSinceMidnight, "since_midnight", "in", topic,
                        "mdi:water"))
    ELSE Tuple(<<ArwnSensor(N_TotalRainfall, "total", unit, topic, "mdi:water"),
                 ArwnSensor(N_RainfallRate, "rate", unit, topic, "mdi:water")>>)

Barometer(parts, unit, topic) ==
    One(ArwnSensor(N_Barometer, "pressure", unit, topic,
                   "mdi:thermometer-lines"))

\* Mutant: the direction sensor takes its unit from the payload as well.
Wind_uniform(parts, unit, topic) ==
    Tuple(<<ArwnSensor(N_WindSpeed, "speed", unit, topic, "mdi:speedometer"),
            ArwnSensor(N_WindGust, "gust", unit, topic, "mdi:speedometer"),
            ArwnSensor(N_WindDirection, "direction", unit, topic,
                       "mdi:compass")>>)

Wind(parts, unit, topic) ==
    Tuple(<<ArwnSensor(N_WindSpeed, "speed", unit, topic, "mdi:speedometer"),
            ArwnSensor(N_WindGust, "gust", unit, topic, "mdi:speedometer"),
            ArwnSensor(N_WindDirection, "direction", DEGREE, topic,
                       "mdi:compass")>>)

\* Mutant: a domain that is none of the five is taken for a barometer.
discover_sensors_default(topic, payload) ==
    LET parts == Split(topic)
        unit == IF "units" \in DOMAIN payload.obj
                THEN payload.obj["units"] ELSE ""
        domain == parts[2]
    IN  IF payload.kind # "object" THEN Raise("AttributeError")
        ELSE IF Len(parts) < 2 THEN Raise("IndexError")
        ELSE IF domain = S_temperature THEN Temperature(parts, unit, topic)
        ELSE IF domain = S_moisture THEN Moisture(parts, unit, topic)
        ELSE IF domain = S_rain THEN Rain(parts, unit, topic)
        ELSE IF domain = S_wind THEN Wind(parts, unit, topic)
        ELSE Barometer(parts, unit, topic)

\* payload is the decoded JSON value.  payload.get raises on a value that is
\* not a dict, then parts[1] on a topic of one segment and parts[2] on a
\* topic of two.
discover_sensors(topic, payload) ==
    LET parts == Split(topic)
        unit == IF "units" \in DOMAIN payload.obj
                THEN payload.obj["units"] ELSE ""
        domain == parts[2]
    IN  IF payload.kind # "object" THEN Raise("AttributeError")
        ELSE IF Len(parts) < 2 THEN Raise("IndexError")
        ELSE IF domain = S_temperature THEN Temperature(parts, unit, topic)
        ELSE IF domain = S_moisture THEN Moisture(parts, unit, topic)
        ELSE IF domain = S_rain THEN Rain(parts, unit, topic)
        ELSE IF domain = S_barometer THEN Barometer(parts, unit, topic)
        ELSE IF domain = S_wind THEN Wind(parts, unit, topic)
        ELSE None

----------------------------------------------------------------------------
(* The router callback, async_sensor_event_received *)

\* The callbacks are named by the topic they subscribe: the router by arwn/#.
RouterName == TOPIC

NoRaise == [k \in {} |-> ""]

\* The sensor is stored, announced and handed to the host when set_event
\* returned; when it raised, the exception leaves the callback.
Stored_or_raised(h, applied) ==
    IF applied.raised # "none"
    THEN [h EXCEPT !.raised = @ @@ (RouterName :> applied.raised)]
    ELSE [h EXCEPT
            !.store = (applied.sensor.name :> applied.sensor) @@ @,
            !.pending = @ \cup {applied.sensor.name},
            !.announced = @ (+) SetToBag({applied.sensor.name}),
            !.written = @ (+) SetToBag({applied.sensor.name})]

\* Mutant: a name counts as registered only when it was registered from the
\* same topic.
Register_bytopic(h, sensor, event) ==
    IF \/ sensor.name \notin DOMAIN h.store
       \/ h.store[sensor.name].topic # sensor.topic
    THEN Stored_or_raised(h, set_event([sensor EXCEPT !.hass = TRUE], event))
    ELSE h

\* Mutant: the sensor is stored and announced whether or not its name is a
\* key of the registry.
Register_overwrite(h, sensor, event) ==
    Stored_or_raised(h, set_event([sensor EXCEPT !.hass = TRUE], event))

\* One iteration of `for sensor in sensors`.  h carries the registry, the
\* sensors given to async_add_entities and the outputs of this delivery.
Register(h, sensor, event) ==
    IF sensor.name \notin DOMAIN h.store
    THEN Stored_or_raised(h, set_event([sensor EXCEPT !.hass = TRUE], event))
    ELSE h

\* Mutant: the loop ends after the first sensor it registers, so that a
\* message registers one of the sensors it classifies to.
RECURSIVE RegisterAll_first(_, _, _)
RegisterAll_first(h, sensors, event) ==
    IF Len(sensors) = 0 \/ RouterName \in DOMAIN h.raised THEN h
    ELSE IF Head(sensors).name \notin DOMAIN h.store
    THEN Register(h, Head(sensors), event)
    ELSE RegisterAll_first(h, Tail(sensors), event)

\* The loop ends with the sensors or with the exception of an iteration.
RECURSIVE RegisterAll(_, _, _)
RegisterAll(h, sensors, event) ==
    IF Len(sensors) = 0 \/ RouterName \in DOMAIN h.raised THEN h
    ELSE RegisterAll(Register(h, Head(sensors), event), Tail(sensors), event)

\* Mutant: a payload that does not decode is taken for the empty object.
async_sensor_event_received_lenient(h, m) ==
    LET decoded == IF m.payload.kind = "malformed"
                   THEN [raised |-> "none", value |-> JsonObject(NoObj)]
                   ELSE json_loads(m.payload)
        sensors == discover_sensors(m.topic, decoded.value)
        event == StripTimestamp(decoded.value)
    IN  IF sensors.raised # "none"
        THEN [h EXCEPT !.raised = @ @@ (RouterName :> sensors.raised)]
        ELSE IF sensors.kind = "None" THEN h
        ELSE IF event.raised # "none"
        THEN [h EXCEPT !.raised = @ @@ (RouterName :> event.raised)]
        ELSE RegisterAll(h, sensors.sensors, event.value)

\* h is the state the callback starts from, m the message.
\* hass.data["arwn"] is created on the first registration, so the registry
\* that does not exist yet is the one with no keys.
async_sensor_event_received(h, m) ==
    LET decoded == json_loads(m.payload)
        sensors == discover_sensors(m.topic, decoded.value)
        event == StripTimestamp(decoded.value)
    IN  IF decoded.raised # "none"
        THEN [h EXCEPT !.raised = @ @@ (RouterName :> decoded.raised)]
        ELSE IF sensors.raised # "none"
        THEN [h EXCEPT !.raised = @ @@ (RouterName :> sensors.raised)]
        ELSE IF sensors.kind = "None" THEN h
        ELSE IF event.raised # "none"
        THEN [h EXCEPT !.raised = @ @@ (RouterName :> event.raised)]
        ELSE RegisterAll(h, sensors.sensors, event.value)

----------------------------------------------------------------------------
(* The per-sensor callback, message_received *)

\* The sensor is as set_event left it; its state was written when set_event
\* returned, and the exception leaves the callback when it raised.
Applied(h, name, applied) ==
    IF applied.raised # "none"
    THEN [h EXCEPT !.store[name] = applied.sensor,
                   !.raised = @ @@ (name :> applied.raised)]
    ELSE [h EXCEPT !.store[name] = applied.sensor,
                   !.written = @ (+) SetToBag({name})]

\* Mutant: a payload that does not decode clears the attributes.
message_received_reset(h, name, m) ==
    LET decoded == IF m.payload.kind = "malformed"
                   THEN [raised |-> "none", value |-> JsonObject(NoObj)]
                   ELSE json_loads(m.payload)
        event == StripTimestamp(decoded.value)
    IN  IF event.raised # "none"
        THEN [h EXCEPT !.raised = @ @@ (name :> event.raised)]
        ELSE Applied(h, name, set_event(h.store[name], event.value))

\* message_received of the sensor registered under `name`.
message_received(h, name, m) ==
    LET decoded == json_loads(m.payload)
        event == StripTimestamp(decoded.value)
    IN  IF decoded.raised # "none"
        THEN [h EXCEPT !.raised = @ @@ (name :> decoded.raised)]
        ELSE IF event.raised # "none"
        THEN [h EXCEPT !.raised = @ @@ (name :> event.raised)]
        ELSE Applied(h, name, set_event(h.store[name], event.value))

----------------------------------------------------------------------------
(* The transport and the host *)

Router == [topic |-> TOPIC, name |-> RouterName]
Direct(sensor) == [topic |-> sensor.topic, name |-> sensor.name]

\* Whether a subscription's topic filter matches a message topic: the
\* wildcard arwn/# matches arwn and everything below it, any other filter
\* matches the equal topic.
Matches(filter, topic) ==
    IF filter = TOPIC
    THEN Split(topic)[1] = S_arwn
    ELSE filter = topic

\* The sensor callbacks subscribed to a topic, once per subscription.
Subscribers(subs, topic) ==
    {sub \in BagToSet(subs) : sub.name # RouterName /\ Matches(sub.topic, topic)}

\* The callbacks of the sensor subscriptions in `due` run, in any order: each
\* changes its own sensor only.
RECURSIVE DeliverAll(_, _, _)
DeliverAll(h, due, m) ==
    IF due = {} THEN h
    ELSE LET sub == CHOOSE x \in due : TRUE
         IN  DeliverAll(message_received(h, sub.name, m), due \ {sub}, m)

\* The state a delivery starts from: no outputs yet.
Before ==
    [ store |-> store, pending |-> pending, announced |-> announced,
      raised |-> NoRaise, written |-> EmptyBag ]

Init ==
    /\ store = <<>>
    /\ subscriptions = SetToBag({Router})
    /\ pending = {}
    /\ announced = EmptyBag
    /\ received = 0
    /\ step = "none"
    /\ msg = [topic |-> Join(<<S_arwn>>), payload |-> Malformed]
    /\ raised = NoRaise
    /\ written = EmptyBag

\* A message arrives and the transport calls the callbacks of the matching
\* subscriptions: the router's, which subscribed first, then those of the
\* sensors subscribed to the topic when the message arrived.
Receive(m) ==
    /\ received < MaxMsgs
    /\ BagIn(Router, subscriptions)
    /\ Matches(Router.topic, m.topic)
    /\ received' = received + 1
    /\ step' = "message"
    /\ msg' = m
    /\ \E h \in { DeliverAll(async_sensor_event_received(Before, m),
                              Subscribers(subscriptions, m.topic), m) } :
           /\ store' = h.store
           /\ pending' = h.pending
           /\ announced' = h.announced
           /\ raised' = h.raised
           /\ written' = h.written
    /\ UNCHANGED subscriptions

\* The host adds an announced sensor: ArwnSensor.async_added_to_hass
\* subscribes message_received to the sensor's topic.
async_added_to_hass(name) ==
    /\ name \in pending
    /\ store[name].hass
    /\ subscriptions' = subscriptions (+) SetToBag({Direct(store[name])})
    /\ pending' = pending \ {name}
    /\ step' = "added"
    /\ raised' = NoRaise
    /\ written' = EmptyBag
    /\ UNCHANGED <<store, announced, received, msg>>

Next ==
    \/ \E m \in Messages : Receive(m)
    \/ \E name \in pending : async_added_to_hass(name)

Spec == Init /\ [][Next]_vars

\* The names discover_sensors gives to the sensors of the topics.
Names ==
    UNION { LET found == discover_sensors(m.topic, m.payload).sensors
            IN  {found[i].name : i \in 1..Len(found)} :
            m \in {mm \in Messages : mm.payload.kind = "object"} }

\* The life of a sensor depends on the topics and on whether a payload
\* decodes, not on the readings: the fair specification draws the payloads
\* from one that does not decode and one that does.
LifeMessages == [topic : Topics, payload : {Malformed, JsonObject(Reading1)}]

FairNext ==
    \/ \E m \in LifeMessages : Receive(m)
    \/ \E name \in pending : async_added_to_hass(name)

\* async_add_entities schedules the addition of each sensor as a task of
\* its own on the host's event loop; the loop runs every task it holds, so
\* the add step of an announced sensor is not postponed for ever.
FairSpec ==
    /\ Init
    /\ [][FairNext]_vars
    /\ \A name \in Names : WF_vars(async_added_to_hass(name))

----------------------------------------------------------------------------
(* Vocabulary of the properties *)

KnownDomains == {S_temperature, S_moisture, S_rain, S_barometer, S_wind}

\* The topic has a domain segment and it is none of the five.
Unrecognized(topic) ==
    LET parts == Split(topic)
    IN  Len(parts) >= 2 /\ parts[2] \notin KnownDomains

\* The topic has fewer segments than the grammar reads.
ShortTopic(topic) ==
    LET parts == Split(topic)
    IN  \/ Len(parts) < 2
        \/ Len(parts) < 3 /\ parts[2] \in {S_temperature, S_moisture}

WellFormed(m) ==
    m.payload.kind = "object" /\ ~ShortTopic(m.topic) /\ ~Unrecognized(m.topic)

\* The sensors a well-formed message classifies to.
Classified(m) == discover_sensors(m.topic, m.payload).sensors

\* What a message's payload is stored as.
Stored(m) == DelTimestamp(m.payload.obj)

\* The sensor's direct subscription is established.
Subscribed(n) == BagIn(Direct(store[n]), subscriptions)

\* The payload of m decodes and the test for its timestamp does not raise:
\* a callback of a sensor that receives m calls set_event.
ReachesSetEvent(m) ==
    m.payload.kind # "malformed" /\ StripTimestamp(m.payload).raised = "none"

\* What set_event makes of the payload of m, starting from no attributes.
UpdateOf(m) == dict_update(NoObj, StripTimestamp(m.payload).value)

\* The last step delivered msg and a callback updated sensor n.
Updated(n) == step = "message" /\ BagIn(n, written)

\* Everything about a sensor but its attributes.
Created(sensor) == [sensor EXCEPT !.event = NoObj]

Registry == <<store, subscriptions, pending, announced>>

----------------------------------------------------------------------------
(* C1 *)

\* The announcements made for the sensors of one identity.
AnnouncedFor(id) == {n \in BagToSet(announced) : _slug(n) = id}

\* C1: after any first-sight messages for one identity, exactly one sensor
\* of that identity is in the registry and exactly one announcement was made
\* for it.
C1_AtMostOnceCreation ==
    \A id \in {store[n].entity_id : n \in DOMAIN store} :
        /\ Cardinality({n \in DOMAIN store : store[n].entity_id = id}) = 1
        /\ Cardinality(AnnouncedFor(id)) = 1
        /\ \A n \in AnnouncedFor(id) : CopiesIn(n, announced) = 1

----------------------------------------------------------------------------
(* C2 *)

\* C2: once an object message has been delivered, every sensor that was
\* registered when it arrived and whose topic is the message's holds the
\* message's payload without the timestamp, subscribed or not yet.
C2_AttributesAreLatestPayload ==
    [][(step' = "message" /\ msg'.payload.kind = "object")
        => \A n \in DOMAIN store :
              store[n].topic = msg'.topic => store'[n].event = Stored(msg')]_vars

----------------------------------------------------------------------------
(* C3 *)

\* C3: no two sensors in the registry have the same identity
\* sensor.arwn_<slug of the display name>.
C3_IdentityUnique ==
    \A a, b \in DOMAIN store :
        store[a].entity_id = store[b].entity_id => a = b

----------------------------------------------------------------------------
(* C4 *)

\* C4: a registry key is never removed and the sensor under it is never
\* replaced: in every step every key stays, with the sensor it had (only its
\* attributes may change).
C4_NeverRemovedOrReplaced ==
    [][\A n \in DOMAIN store :
          n \in DOMAIN store' /\ Created(store'[n]) = Created(store[n])]_vars

\* A message on another topic classified to a key registered before, and the
\* sensor registered first is still the one under the key.
C4_Witness ==
    /\ step = "message"
    /\ WellFormed(msg)
    /\ \E i \in 1..Len(Classified(msg)) :
          LET n == Classified(msg)[i].name
          IN  n \in DOMAIN store /\ store[n].topic # msg.topic

----------------------------------------------------------------------------
(* C5 *)

\* C5: the delivery of a payload that does not decode changes no sensor, no
\* registry key, no subscription, announces nothing and notifies nothing,
\* on the router's path and on the sensors' paths.
C5_MalformedDropped ==
    [][(step' = "message" /\ msg'.payload.kind = "malformed")
        => UNCHANGED Registry /\ written' = EmptyBag]_vars

\* A malformed payload reached the router and the callback of a subscribed
\* sensor, and both ended with the decoding error.
C5_Witness ==
    /\ step = "message"
    /\ msg.payload.kind = "malformed"
    /\ RouterName \in DOMAIN raised
    /\ \E n \in DOMAIN store :
          /\ Subscribed(n)
          /\ store[n].topic = msg.topic
          /\ n \in DOMAIN raised
          /\ raised[n] = "JSONDecodeError"

----------------------------------------------------------------------------
(* C6 *)

\* A message that fails in the router: malformed JSON, an unrecognized topic
\* or a malformed topic shape.
Failure(m) ==
    m.payload.kind = "malformed" \/ Unrecognized(m.topic) \/ ShortTopic(m.topic)

\* A well-formed message none of whose sensors is registered.
FirstSight(m) ==
    WellFormed(m)
    /\ \A i \in 1..Len(Classified(m)) : Classified(m)[i].name \notin DOMAIN store

\* C6: a failing message changes nothing of the registry and leaves the
\* router subscribed, and the first-sight message that follows it is
\* registered and announced in full: every sensor it classifies to is in the
\* registry with the payload, announced once and handed to the host.
C6_NoErrorFatal ==
    [][/\ (step' = "message" /\ Failure(msg'))
            => UNCHANGED Registry /\ BagIn(Router, subscriptions')
       /\ (step = "message" /\ Failure(msg) /\ step' = "message"
           /\ FirstSight(msg'))
            => \A i \in 1..Len(Classified(msg')) :
                  LET sensor == Classified(msg')[i]
                  IN  /\ sensor.name \in DOMAIN store'
                      /\ store'[sensor.name] =
                           [sensor EXCEPT !.hass = TRUE, !.event = Stored(msg')]
                      /\ CopiesIn(sensor.name, announced') = 1
                      /\ sensor.name \in pending'
                      /\ BagIn(sensor.name, written')]_vars

\* The second message registered its sensors after the first had failed:
\* the registry holds the sensors of the last message only.
C6_Witness ==
    /\ step = "message"
    /\ received = 2
    /\ WellFormed(msg)
    /\ DOMAIN store = {Classified(msg)[i].name : i \in 1..Len(Classified(msg))}
    /\ \A n \in DOMAIN store : BagIn(n, written) /\ n \in pending

----------------------------------------------------------------------------
(* C7 *)

\* C7: on a topic with fewer segments than the grammar reads, and a
\* well-formed payload, discover_sensors returns the empty result and the
\* router callback ends without an error.
C7_ShortTopicYieldsEmpty ==
    (step = "message" /\ msg.payload.kind = "object" /\ ShortTopic(msg.topic))
        => /\ discover_sensors(msg.topic, msg.payload) = None
           /\ RouterName \notin DOMAIN raised

----------------------------------------------------------------------------
(* C8 *)

\* C8: the delivery of a message whose domain segment is none of the five,
\* with any payload, registers nothing, announces nothing, and changes no
\* sensor's attributes.
C8_UnrecognizedIgnored ==
    [][(step' = "message" /\ Unrecognized(msg'.topic))
        => UNCHANGED Registry /\ written' = EmptyBag]_vars

\* A decodable message on an unrecognized topic was delivered to a registry
\* that holds sensors, and the router returned normally.
C8_Witness ==
    /\ step = "message"
    /\ Unrecognized(msg.topic)
    /\ msg.payload.kind = "object"
    /\ raised = NoRaise
    /\ store # <<>>

----------------------------------------------------------------------------
(* C9 *)

\* C9: "timestamp" is a key of no registered sensor's attributes, whichever
\* path applied the payload.
C9_NoTimestamp ==
    \A n \in DOMAIN store : "timestamp" \notin DOMAIN store[n].event

----------------------------------------------------------------------------
(* C10 *)

\* C10: every sensor a delivery updates with an object holds exactly the
\* payload it was given (the message's, without the timestamp), and its
\* reading is the payload's value at the state key, or the no-value
\* sentinel when the payload has no such key; and whatever value set_event
\* is called with, the attributes it leaves hold nothing of the attributes
\* before: they are what the update of an empty dict gives.
C10_UpdateReplaces ==
    [][/\ (step' = "message" /\ msg'.payload.kind = "object")
            => \A n \in DOMAIN store' :
                  BagIn(n, written')
                  => /\ store'[n].event = Stored(msg')
                     /\ State(store'[n]) =
                          IF store'[n].state_key \in DOMAIN Stored(msg')
                          THEN Stored(msg')[store'[n].state_key]
                          ELSE NoValue
       /\ (step' = "message" /\ ReachesSetEvent(msg'))
            => \A n \in DOMAIN store :
                  (Subscribed(n) /\ store[n].topic = msg'.topic)
                  => store'[n].event = UpdateOf(msg').value]_vars

\* A subscribed sensor was updated with a payload that lacks its state key
\* and has no reading, while a sensor registered by the same message as it,
\* not subscribed yet, still holds the creating payload, which has the key.
C10_Witness ==
    \E n \in DOMAIN store :
        /\ Updated(n)
        /\ Subscribed(n)
        /\ State(store[n]) = NoValue
        /\ \E other \in pending :
              /\ store[other].topic = store[n].topic
              /\ store[n].state_key \in DOMAIN store[other].event

----------------------------------------------------------------------------
(* C11 *)

\* set_event was called on sensor n in the last step: it wrote the state, or
\* it raised in the sensor's callback.
SetEventRan(n) ==
    /\ step = "message"
    /\ ReachesSetEvent(msg)
    /\ BagIn(n, written) \/ n \in DOMAIN raised

\* C11: a sensor to which a delivery has applied set_event with a payload
\* holds the same attributes when set_event is applied to it once more with
\* that payload, whichever of the two paths applied it first and whether or
\* not the call returned.
C11_UpdateIdempotent ==
    \A n \in DOMAIN store :
        SetEventRan(n)
        => set_event(store[n], StripTimestamp(msg.payload).value).sensor.event
             = store[n].event

\* A subscribed sensor was updated by its own callback with a payload that
\* carries readings and no timestamp, so that what it holds is the payload
\* as it was sent.
C11_Witness ==
    \E n \in DOMAIN store :
        /\ Updated(n)
        /\ Subscribed(n)
        /\ msg.payload = JsonObject(Reading2)
        /\ store[n].event = Reading2

----------------------------------------------------------------------------
(* C12 *)

IsWind(topic) == Len(Split(topic)) >= 2 /\ Split(topic)[2] = S_wind

\* P.units, or the empty string when the payload has no units.
Units(P) == IF "units" \in DOMAIN P THEN P["units"] ELSE ""

\* P.key, or the no-value sentinel when the payload has no such key.
Value(P, key) == IF key \in DOMAIN P THEN P[key] ELSE NoValue

\* The registry holds the three wind sensors with the readings and the
\* units of payload P.
WindOf(registry, P) ==
    /\ {N_WindSpeed, N_WindGust, N_WindDirection} \subseteq DOMAIN registry
    /\ State(registry[N_WindSpeed]) = Value(P, "speed")
    /\ State(registry[N_WindGust]) = Value(P, "gust")
    /\ State(registry[N_WindDirection]) = Value(P, "direction")
    /\ registry[N_WindDirection].unit = DEGREE
    /\ registry[N_WindSpeed].unit = Units(P)
    /\ registry[N_WindGust].unit = Units(P)

\* C12 as stated: after the delivery of any decodable message on a wind
\* topic, the registry holds Wind Speed, Wind Gust and Wind Direction with
\* the message's speed, gust and direction as readings, the degree unit for
\* the direction and the message's units for the other two.
C12_WindEndToEnd ==
    (step = "message" /\ msg.payload.kind = "object" /\ IsWind(msg.topic))
        => WindOf(store, msg.payload.obj)

\* C12, amended: after the delivery of any decodable message on a wind topic
\* the registry holds the three wind sensors, and when the message is the
\* first sight of them their readings are the message's speed, gust and
\* direction, the unit of the direction is the degree and the unit of the
\* other two is the message's units.
C12_WindFirstSight ==
    [][(step' = "message" /\ msg'.payload.kind = "object"
        /\ IsWind(msg'.topic))
        => /\ {N_WindSpeed, N_WindGust, N_WindDirection}
                \subseteq DOMAIN store'
           /\ FirstSight(msg') => WindOf(store', msg'.payload.obj)]_vars

\* The first wind message was delivered with units F: the three sensors
\* were registered by it, the direction in degrees and the speed in F.
C12_Witness ==
    /\ step = "message"
    /\ IsWind(msg.topic)
    /\ msg.payload = JsonObject(Reading1)
    /\ {N_WindSpeed, N_WindGust, N_WindDirection} \subseteq pending
    /\ \A n \in {N_WindSpeed, N_WindGust, N_WindDirection} : Updated(n)
    /\ store[N_WindDirection].unit = DEGREE
    /\ store[N_WindSpeed].unit = "F"
    /\ State(store[N_WindSpeed]) = "5"

----------------------------------------------------------------------------
(* C13 *)

\* A topic arwn/temperature/<name>.
IsTemperature(topic) ==
    Len(Split(topic)) >= 3 /\ Split(topic)[2] = S_temperature

\* C13: after the delivery of a first-sight message on
\* arwn/temperature/<name> with payload P, the registry holds, under <name>,
\* a sensor of identity sensor.arwn_<slug of name> whose reading is P.temp
\* and whose unit is the Fahrenheit label when P.units is "F" and the
\* Celsius label for any other or missing units.
C13_TemperatureEndToEnd ==
    [][(step' = "message" /\ IsTemperature(msg'.topic) /\ FirstSight(msg'))
        => LET name == Split(msg'.topic)[3]
               P == msg'.payload.obj
           IN  /\ name \in DOMAIN store'
               /\ store'[name].entity_id = S_sensor_arwn_ \o slugify(name)
               /\ State(store'[name]) = Value(P, "temp")
               /\ store'[name].unit = IF Units(P) = "F"
                                      THEN TEMP_FAHRENHEIT
                                      ELSE TEMP_CELSIUS]_vars

\* arwn/temperature/Yard was seen first with units F and has the Fahrenheit
\* label and the reading 72.5; arwn/temperature/Barometer was seen first
\* with a payload without units and has the Celsius label and no reading.
C13_Witness ==
    /\ step = "message"
    /\ msg = [topic |-> Join(<<S_arwn, S_temperature, S_Yard>>),
              payload |-> JsonObject(Reading1)]
    /\ S_Yard \in pending
    /\ Updated(S_Yard)
    /\ store[S_Yard].entity_id = S_sensor_arwn_ \o slugify(S_Yard)
    /\ store[S_Yard].unit = TEMP_FAHRENHEIT
    /\ State(store[S_Yard]) = "72.5"
    /\ N_Barometer \in DOMAIN store
    /\ store[N_Barometer].unit = TEMP_CELSIUS
    /\ store[N_Barometer].event = DelTimestamp(Reading3)
    /\ State(store[N_Barometer]) = NoValue

----------------------------------------------------------------------------
(* C14 *)

IsRain(topic) == Len(Split(topic)) >= 2 /\ Split(topic)[2] = S_rain

\* C14: for a decodable message on a rain topic whose segment 3 is today,
\* discover_sensors yields one sensor, Rain Since Midnight, of state key
\* since_midnight and unit in whatever the payload's units; on every other
\* rain topic, the two-segment arwn/rain included, it yields two, Total
\* Rainfall (total) and Rainfall Rate (rate), both with the payload's units
\* or the empty string; and the registry holds a sensor under each name.
C14_RainGrammar ==
    (step = "message" /\ msg.payload.kind = "object" /\ IsRain(msg.topic))
        => LET parts == Split(msg.topic)
               P == msg.payload.obj
               found == discover_sensors(msg.topic, msg.payload)
               d == found.sensors
           IN  /\ found.raised = "none"
               /\ \A i \in 1..Len(d) :
                     d[i].name \in DOMAIN store /\ d[i].topic = msg.topic
               /\ IF Len(parts) >= 3 /\ parts[3] = S_today
                  THEN /\ Len(d) = 1
                       /\ d[1].name = N_RainSinceMidnight
                       /\ d[1].state_key = "since_midnight"
                       /\ d[1].unit = "in"
                  ELSE /\ Len(d) = 2
                       /\ d[1].name = N_TotalRainfall
                       /\ d[1].state_key = "total"
                       /\ d[1].unit = Units(P)
                       /\ d[2].name = N_RainfallRate
                       /\ d[2].state_key = "rate"
                       /\ d[2].unit = Units(P)

\* A payload without units on the two-segment topic arwn/rain registered
\* the two sensors with the empty unit, after a payload with units on
\* arwn/rain/today had registered Rain Since Midnight in inches.
C14_Witness ==
    /\ step = "message"
    /\ msg = [topic |-> Join(<<S_arwn, S_rain>>),
              payload |-> JsonObject(Reading3)]
    /\ {N_TotalRainfall, N_RainfallRate} \subseteq pending
    /\ store[N_TotalRainfall].unit = ""
    /\ store[N_RainfallRate].unit = ""
    /\ store[N_RainfallRate].state_key = "rate"
    /\ N_RainSinceMidnight \in DOMAIN store
    /\ store[N_RainSinceMidnight].unit = "in"
    /\ "units" \in DOMAIN store[N_RainSinceMidnight].event

----------------------------------------------------------------------------
(* C15 *)

\* C15: when a decodable message classifies to a name that is registered
\* already, the router neither registers nor announces anything for that
\* name, and once the message has been delivered the sensor under the name
\* holds the message's payload without the timestamp.
C15_KnownSensorReceives ==
    [][(step' = "message" /\ WellFormed(msg'))
        => \A i \in 1..Len(Classified(msg')) :
              LET n == Classified(msg')[i].name
              IN  n \in DOMAIN store
                  => /\ Created(store'[n]) = Created(store[n])
                     /\ CopiesIn(n, announced') = CopiesIn(n, announced)
                     /\ store'[n].event = Stored(msg')]_vars

----------------------------------------------------------------------------
(* C16 *)

\* The names the classification of a message yields.
YieldedBy(m) ==
    IF m.payload.kind = "object"
    THEN LET found == Classified(m)
         IN  {found[i].name : i \in 1..Len(found)}
    ELSE {}

Yields(m, n) == n \in YieldedBy(m)

\* A step of the life of sensor n: registered, it stays registered and is
\* not announced again; it becomes registered only by the delivery of a
\* message that classifies to it, which announces it once and hands it to
\* the host; and the delivery of a message that classifies to it while it
\* is not registered registers it, so that the message that registers it is
\* the first that classifies to it.
LifecycleStep(n) ==
    /\ n \in DOMAIN store
         => /\ n \in DOMAIN store'
            /\ CopiesIn(n, announced') = CopiesIn(n, announced)
    /\ (n \notin DOMAIN store /\ n \in DOMAIN store')
         => /\ step' = "message"
            /\ Yields(msg', n)
            /\ CopiesIn(n, announced') = 1
            /\ n \in pending'
    /\ (step' = "message" /\ Yields(msg', n) /\ n \notin DOMAIN store)
         => /\ n \in DOMAIN store'
            /\ CopiesIn(n, announced') = 1
            /\ n \in pending'

\* A registered sensor was announced once and holds no more than one
\* subscription, to the topic it was discovered on; it holds none exactly
\* while it waits for the host's add step.
LifecycleState(n) ==
    n \in DOMAIN store
    => /\ CopiesIn(n, announced) = 1
       /\ CopiesIn(Direct(store[n]), subscriptions) <= 1
       /\ \A sub \in BagToSet(subscriptions) :
             sub.name = n => sub = Direct(store[n])
       /\ n \in pending <=> ~Subscribed(n)

\* C16: every sensor becomes registered once, by the first message that
\* classifies to it, and never leaves the registry; once announced it
\* eventually holds a subscription to the topic it was discovered on, given
\* that the host's add step is scheduled fairly; and it never holds more
\* than one.
C16_SensorLifecycle ==
    /\ [][\A n \in Names : LifecycleStep(n)]_vars
    /\ [](\A n \in Names : LifecycleState(n))
    /\ \A n \in Names :
          (n \in pending) ~> (n \in DOMAIN store /\ Subscribed(n))

\* A sensor that went through the whole life: announced once, added by the
\* host, subscribed once, and updated since by its own callback, while a
\* sensor registered with it still waits for the host without a subscription.
C16_Witness ==
    \E n \in DOMAIN store :
        /\ n \notin pending
        /\ CopiesIn(Direct(store[n]), subscriptions) = 1
        /\ CopiesIn(n, announced) = 1
        /\ Updated(n)
        /\ received >= 2
        /\ \E other \in pending :
              /\ CopiesIn(other, announced) = 1
              /\ CopiesIn(Direct(store[other]), subscriptions) = 0

----------------------------------------------------------------------------
(* C17 *)

\* What is fixed when a sensor is created.
Fixed(sensor) ==
    [ unit |-> sensor.unit, icon |-> sensor.icon,
      state_key |-> sensor.state_key, topic |-> sensor.topic ]

\* C17: no step changes the unit, the icon, the state key or the topic of
\* a registered sensor, whatever the topic and the units of the message
\* delivered; a sensor the delivery updates keeps them while its reading
\* becomes the one of the new payload.
C17_FixedAtCreation ==
    [][\A n \in DOMAIN store :
          /\ n \in DOMAIN store'
          /\ Fixed(store'[n]) = Fixed(store[n])
          /\ (step' = "message" /\ msg'.payload.kind = "object"
              /\ BagIn(n, written'))
               => State(store'[n]) =
                    Value(msg'.payload.obj, store[n].state_key)]_vars

\* A sensor created by a payload with units F was updated by its own
\* callback with a payload of units mph: its unit is still F and its
\* reading is the one of the new payload.
C17_Witness ==
    \E n \in DOMAIN store :
        /\ Updated(n)
        /\ Subscribed(n)
        /\ msg.payload = JsonObject(Reading2)
        /\ store[n].unit = "F"
        /\ store[n].event["units"] = "mph"
        /\ State(store[n]) = Reading2[store[n].state_key]

----------------------------------------------------------------------------
(* C18 *)

\* The sensors the delivery of m applies set_event to: on the router's path
\* those m classifies to that are not registered, on the sensors' paths
\* those subscribed to the topic of m when their callback reaches the call.
AppliedTo(m) ==
    (YieldedBy(m) \ DOMAIN store)
    \cup {n \in DOMAIN store :
             /\ ReachesSetEvent(m)
             /\ store[n].topic = m.topic
             /\ Subscribed(n)}

\* C18: a delivery writes the state of a sensor once when it applies
\* set_event to it, on either path, and not at all otherwise; it writes no
\* state when the message is dropped or ignored, and a sensor whose
\* attributes a step changes has had its state written by it.
C18_OneNotification ==
    [][/\ step' = "message"
         => LET applied == AppliedTo(msg')
            IN  /\ BagToSet(written') = applied
                /\ \A n \in applied : CopiesIn(n, written') = 1
                /\ Failure(msg') => written' = EmptyBag
       /\ step' = "added" => written' = EmptyBag
       /\ \A n \in DOMAIN store' :
             (n \notin DOMAIN store \/ store'[n].event # store[n].event)
             => CopiesIn(n, written') = 1]_vars

----------------------------------------------------------------------------
(* C19 *)

\* Sensors the same message discovered: both created on one topic.
Siblings(a, b) == store[a].topic = store[b].topic

\* C19: the sensors discovered from one message have one topic, and in
\* every state in which they all hold their subscription (a delivery is one
\* step, so none is in progress in any state) their attributes are equal.
C19_SiblingsAgree ==
    \A a, b \in DOMAIN store :
        (Siblings(a, b) /\ Subscribed(a) /\ Subscribed(b))
        => store[a].event = store[b].event

----------------------------------------------------------------------------
(* C20 *)

\* The message classifies to name n, which is registered under another
\* topic than the message's.
Clash(m, n) ==
    n \in DOMAIN store /\ store[n].topic # m.topic /\ Yields(m, n)

\* C20: the registry is keyed by the display name and the first writer
\* wins: for a message that classifies to a name registered under another
\* topic, the delivery keeps the sensor under the name as it was created,
\* attributes included, announces nothing for the name, writes no state for
\* it and leaves its subscription, if it has one, on the topic it was
\* created on.
C20_FirstWriterWins ==
    [][step' = "message"
        => \A n \in YieldedBy(msg') :
              Clash(msg', n)
              => /\ n \in DOMAIN store'
                 /\ store'[n] = store[n]
                 /\ CopiesIn(n, announced') = 1
                 /\ CopiesIn(n, announced) = 1
                 /\ ~BagIn(n, written')
                 /\ \A sub \in BagToSet(subscriptions') :
                       sub.name = n => sub.topic = store[n].topic]_vars

\* A message on arwn/barometer was delivered after arwn/temperature/Barometer
\* had created the sensor Barometer and the host had subscribed it: the sensor
\* is still the temperature sensor, with the payload that created it.
C20_Witness ==
    /\ step = "message"
    /\ msg = [topic |-> Join(<<S_arwn, S_barometer>>),
              payload |-> JsonObject(Reading2)]
    /\ DOMAIN store = {N_Barometer}
    /\ Subscribed(N_Barometer)
    /\ store[N_Barometer].topic = Join(<<S_arwn, S_temperature, N_Barometer>>)
    /\ store[N_Barometer].state_key = "temp"
    /\ store[N_Barometer].unit = TEMP_FAHRENHEIT
    /\ store[N_Barometer].event = DelTimestamp(Reading1)
    /\ announced = SetToBag({N_Barometer})

============================================================================
